---- MODULE Spec2Model ----
(***************************************************************************)
(* The privileged supervisor of smtpfd (extras/filters/smtpfd/smtpfd.c):   *)
(* the distribution of a filter configuration to the engine                *)
(* (priv_send_config, priv_send_filter_proc, priv_send_filter_conf), the   *)
(* reload transaction (priv_reload), the signal and imsg handlers, and     *)
(* priv_shutdown.                                                          *)
(***************************************************************************)
EXTENDS Integers, Sequences, FiniteSets, TLC

\* ------------------------------------------------------------------ bounds
\* Longest filter list of an enumerated configuration.
MaxFilters == 3
\* Longest reference list of an enumerated chain.
MaxRefs == 2
\* Most environment faults (a failing proc_compose, socketpair or fork)
\* injected into one distribution.
MaxFaults == 1
\* Most reloads (SIGHUP or IMSG_CTL_RELOAD) of one run.
MaxReloads == 2

\* Frames of priv_send_filter_conf the C stack holds before the recursion
\* overruns it; deeper than any acyclic nesting of the configurations below.
StackLimit == MaxFilters + 4

\* ------------------------------------------------------- configurations
\* struct filter_conf: name, chain flag, argv (a leaf's command line, a
\* chain's referenced names).
Leaf(n) == [name |-> n, chain |-> FALSE, argv |-> <<"exec">>]

Chain(n, refs) == [name |-> n, chain |-> TRUE, argv |-> refs]

NameOf == <<"a", "b", "c">>

Names == {NameOf[i] : i \in 1..Len(NameOf)}

\* Reference lists of a chain: names, none twice, in any order.  A name of
\* Names that the configuration does not define is an unresolved reference.
RefLists ==
    {r \in UNION {[1..k -> Names] : k \in 0..MaxRefs} :
        \A i, j \in DOMAIN r : i # j => r[i] # r[j]}

Bodies == {<<FALSE, <<>>>>} \cup {<<TRUE, r>> : r \in RefLists}

MkEntry(n, b) == IF b[1] THEN Chain(n, b[2]) ELSE Leaf(n)

\* The enumerated configurations: up to MaxFilters entries, the i-th one named
\* NameOf[i] (the code compares names only for equality), each a leaf or a
\* chain over any reference list.
SmallConfigs ==
    UNION {{[i \in 1..k |-> MkEntry(NameOf[i], bs[i])] : bs \in [1..k -> Bodies]} :
        k \in 0..(IF MaxFilters < Len(NameOf) THEN MaxFilters ELSE Len(NameOf))}

\* One leaf and one chain over it.
VirusAll == <<Leaf("virus"), Chain("all", <<"virus">>)>>

\* The same, the chain declared first.
AllVirus == <<Chain("all", <<"virus">>), Leaf("virus")>>

\* A chain over a leaf and a chain.
Nested ==
    <<Chain("X", <<"A", "B">>), Leaf("A"), Chain("B", <<"C", "D">>),
      Leaf("C"), Leaf("D")>>

\* Three levels of chains, one reference unresolved, a leaf that two chains
\* name and a leaf that none names.
Deep ==
    <<Chain("top", <<"mid", "gone", "l1">>), Chain("mid", <<"low", "l2">>),
      Chain("low", <<"l1">>), Leaf("l1"), Leaf("l2"), Leaf("solo")>>

\* A chain that names itself, behind a leaf.
SelfRef == <<Leaf("l"), Chain("loop", <<"l", "loop">>)>>

\* Two chains that name each other.
Mutual == <<Chain("p", <<"q">>), Chain("q", <<"p">>)>>

\* A chain whose only reference is unresolved.
Dangling == <<Chain("none", <<"gone">>)>>

ExampleConfigs == {VirusAll, AllVirus, Nested, Deep, SelfRef, Mutual, Dangling}

\* ------------------------------------------------------------ variables
VARIABLES
    pc,         \* where the supervisor is: "start", "running", "loopexit",
                \* "wait", "exit0", "fatal", "killed", "crashed"
    env,        \* the active configuration: [id, filters]
    heap,       \* ids of the smtpfd_conf objects allocated and not freed
    procs,      \* p_frontend and p_engine: [pid, open]
    children,   \* un-reaped child processes: pid -> "running" or "zombie"
    nextPid,    \* pid the next fork returns
    dist,       \* the last run of priv_send_config: [conf, end, calls, forked]
    last,       \* the last of these to run (op): "main", "priv_reload", or
                \* priv_shutdown called by the signal handler ("signal") or by
                \* main ("event_dispatch"); for priv_reload, the id of the
                \* configuration parse_config returned (xconf, 0 for NULL)
                \* and what priv_reload returned (ret)
    log,        \* what the last step logged at warning priority or above
                \* (log_warnx, fatal): a set of <<priority, text, pid>>
    nreload,    \* calls of priv_reload so far
    nshutdown,  \* calls of priv_shutdown so far
    cleaned,    \* control_cleanup(csock) has run
    pledged,    \* the kernel enforces the pledge of main
    closed,     \* the channels whose dispatch callback ran with imsg == NULL
    reaped,     \* how the child that the last wait(&status) of priv_shutdown
                \* returned had ended: [status]
    cmd         \* main before it starts the children: the command line, the
                \* locals of main, the exit and what was printed

vars ==
    <<pc, env, heap, procs, children, nextPid, dist, last, log, nreload,
      nshutdown, cleaned, pledged, closed, reaped, cmd>>

\* No wait(&status) of priv_shutdown yet, or one that returned -1.
NoReap == [status |-> "none"]

\* main has started the children: its command line is not followed further.
NoCmd == [at |-> "started"]

\* ---------------------------------------------------------- distribution
\* One proc_compose(p_engine, type, 0, pid, fd, data, len) call.
Msg(type, pid, fd, data) == [type |-> type, pid |-> pid, fd |-> fd, data |-> data]

\* The descriptors socketpair() stores in sp[0] and sp[1] at the nth call of
\* priv_send_filter_proc.
Sp(nth, side) == 2 * nth + side

\* Faults of one distribution: the proc_compose calls (by position) that
\* return -1, and the call of priv_send_filter_proc (sysAt, 0 for none)
\* whose socketpair() or fork() returns -1.
NoFault == [fails |-> {}, sysAt |-> 0, sysCall |-> "none"]

RECURSIVE SubsetsUpTo(_, _)
SubsetsUpTo(S, k) ==
    IF k = 0 THEN {{}}
    ELSE LET P == SubsetsUpTo(S, k - 1)
         IN  P \cup {T \cup {x} : T \in P, x \in S}

Faults(ncalls, nleaves) ==
    {[fails |-> S, sysAt |-> 0, sysCall |-> "none"] :
        S \in SubsetsUpTo(1..ncalls, MaxFaults)}
    \cup
    {[fails |-> S, sysAt |-> k, sysCall |-> c] :
        S \in SubsetsUpTo(1..ncalls, MaxFaults - 1), k \in 1..nleaves,
        c \in IF MaxFaults > 0 THEN {"socketpair", "fork"} ELSE {}}

\* TAILQ_FOREACH(tmp, &conf->filters, entry) if (!strcmp(name, tmp->name)):
\* the position of the first entry of that name, 0 when there is none.
Lookup(conf, name) ==
    IF \E i \in 1..Len(conf) : conf[i].name = name
    THEN CHOOSE i \in 1..Len(conf) :
            /\ conf[i].name = name
            /\ \A j \in 1..(i - 1) : conf[j].name # name
    ELSE 0

\* priv_send_filter_conf(conf, f) as frame number depth of the recursion: the
\* names of the IMSG_RECONF_FILTER_NODE messages it composes, in order, and
\* whether the recursion overran the stack (ovf) before returning.
RECURSIVE priv_send_filter_conf(_, _, _)
RECURSIVE chain_loop(_, _, _, _)
chain_loop_shallow(conf, f, i, depth) ==
    IF i > Len(f.argv) THEN [ovf |-> FALSE, nodes |-> <<>>]
    ELSE LET k == Lookup(conf, f.argv[i])
             sub == IF k = 0 THEN [ovf |-> FALSE, nodes |-> <<>>]
                    ELSE [ovf |-> FALSE, nodes |-> <<conf[k].name>>]
             rest == chain_loop(conf, f, i + 1, depth)
         IN  [ovf |-> rest.ovf, nodes |-> sub.nodes \o rest.nodes]

chain_loop(conf, f, i, depth) ==
    IF i > Len(f.argv) THEN [ovf |-> FALSE, nodes |-> <<>>]
    ELSE LET k == Lookup(conf, f.argv[i])
             sub == IF k = 0 THEN [ovf |-> FALSE, nodes |-> <<>>]
                    ELSE priv_send_filter_conf(conf, conf[k], depth + 1)
         IN  IF sub.ovf THEN sub
             ELSE LET rest == chain_loop(conf, f, i + 1, depth)
                  IN  [ovf |-> rest.ovf, nodes |-> sub.nodes \o rest.nodes]

priv_send_filter_conf_chains(conf, f, depth) ==
    IF depth > StackLimit THEN [ovf |-> TRUE, nodes |-> <<>>]
    ELSE IF f.chain THEN chain_loop(conf, f, 1, depth)
    ELSE [ovf |-> FALSE, nodes |-> <<>>]

priv_send_filter_conf(conf, f, depth) ==
    IF depth > StackLimit THEN [ovf |-> TRUE, nodes |-> <<>>]
    ELSE IF f.chain THEN chain_loop(conf, f, 1, depth)
    ELSE [ovf |-> FALSE, nodes |-> <<f.name>>]

\* priv_send_filter_proc(f), the nth call of a distribution, in the parent:
\* how it ends, the message it composes and the pid it forked.  fork() needs
\* the "proc" promise, which the pledge of main does not hold.
\* pledge("rpath stdio sendfd cpath", NULL)
Promises == {"rpath", "stdio", "sendfd", "cpath"}

\* The promise pledge(2) asks for each system call the supervisor makes after
\* the pledge: parse_config opens the file (rpath), control_cleanup unlinks
\* the socket (cpath), a descriptor travels in an imsg (sendfd).
Needs(call) ==
    CASE call = "fork" -> "proc"
      [] call = "execvp" -> "exec"
      [] call = "open" -> "rpath"
      [] call = "unlink" -> "cpath"
      [] call = "sendmsg_fd" -> "sendfd"
      [] OTHER -> "stdio"

\* A call outside the promises ends the process with SIGABRT.
Permitted(call) == Needs(call) \in Promises

priv_send_filter_proc(f, nth, fault, enforced, pid) ==
    IF fault.sysAt = nth /\ fault.sysCall = "socketpair"
    THEN [end |-> "fatal", calls |-> <<>>, forked |-> <<>>]
    ELSE IF enforced /\ ~Permitted("fork")
    THEN [end |-> "killed", calls |-> <<>>, forked |-> <<>>]
    ELSE IF fault.sysAt = nth /\ fault.sysCall = "fork"
    THEN [end |-> "fatal", calls |-> <<>>, forked |-> <<>>]
    ELSE [end |-> "return",
          calls |-> <<Msg("IMSG_RECONF_FILTER_PROC", pid, Sp(nth, 1), f.name)>>,
          forked |-> <<pid>>]

\* The first loop of priv_send_config, from entry i on, nth - 1 leaves done.
RECURSIVE spawn_loop(_, _, _, _, _, _)
spawn_loop_every_entry(conf, i, nth, fault, enforced, pid) ==
    IF i > Len(conf) THEN [end |-> "return", calls |-> <<>>, forked |-> <<>>]
    ELSE LET one == priv_send_filter_proc(conf[i], nth, fault, enforced, pid)
         IN  IF one.end # "return" THEN one
             ELSE LET rest == spawn_loop(conf, i + 1, nth + 1, fault, enforced, pid + 1)
                  IN  [end |-> rest.end, calls |-> one.calls \o rest.calls,
                       forked |-> one.forked \o rest.forked]

spawn_loop(conf, i, nth, fault, enforced, pid) ==
    IF i > Len(conf) THEN [end |-> "return", calls |-> <<>>, forked |-> <<>>]
    ELSE IF conf[i].chain THEN spawn_loop(conf, i + 1, nth, fault, enforced, pid)
    ELSE LET one == priv_send_filter_proc(conf[i], nth, fault, enforced, pid)
         IN  IF one.end # "return" THEN one
             ELSE LET rest == spawn_loop(conf, i + 1, nth + 1, fault, enforced, pid + 1)
                  IN  [end |-> rest.end, calls |-> one.calls \o rest.calls,
                       forked |-> one.forked \o rest.forked]

\* The second loop of priv_send_config, from entry i on.
RECURSIVE declare_loop(_, _)
declare_loop(conf, i) ==
    IF i > Len(conf) THEN [end |-> "return", calls |-> <<>>]
    ELSE LET decl == <<Msg("IMSG_RECONF_FILTER", 0, -1, conf[i].name)>>
             r == priv_send_filter_conf(conf, conf[i], 1)
             nodes == [k \in 1..Len(r.nodes) |->
                          Msg("IMSG_RECONF_FILTER_NODE", 0, -1, r.nodes[k])]
         IN  IF r.ovf THEN [end |-> "overflow", calls |-> decl \o nodes]
             ELSE LET rest == declare_loop(conf, i + 1)
                  IN  [end |-> rest.end, calls |-> decl \o nodes \o rest.calls]

\* The calls with the outcome of each: ok is FALSE where proc_compose
\* returned -1 and queued nothing.
Mark(calls, fails) ==
    [k \in 1..Len(calls) |->
        [type |-> calls[k].type, pid |-> calls[k].pid, fd |-> calls[k].fd,
         data |-> calls[k].data, ok |-> k \notin fails]]

\* priv_send_config(xconf): end is "ok" (returned 0), "fail" (returned -1),
\* "fatal" (fatal() exited), "killed" (pledge violation) or "overflow" (the
\* stack overrun); calls are the proc_compose calls made, forked the pids of
\* the filter processes created.
priv_send_config_declare_first(conf, fault, enforced, pid) ==
    LET begin == <<Msg("IMSG_RECONF_CONF", 0, -1, "")>>
        done == <<Msg("IMSG_RECONF_END", 0, -1, "")>>
    IN  IF 1 \in fault.fails
        THEN [end |-> "fail", calls |-> Mark(begin, fault.fails), forked |-> <<>>]
        ELSE LET sp == spawn_loop(conf, 1, 1, fault, enforced, pid)
             IN  IF sp.end # "return"
                 THEN [end |-> sp.end, calls |-> Mark(begin \o sp.calls, fault.fails),
                       forked |-> sp.forked]
                 ELSE LET dc == declare_loop(conf, 1)
                          upto == begin \o dc.calls \o sp.calls
                      IN  IF dc.end # "return"
                          THEN [end |-> "overflow", calls |-> Mark(upto, fault.fails),
                                forked |-> sp.forked]
                          ELSE [end |-> IF Len(upto) + 1 \in fault.fails
                                        THEN "fail" ELSE "ok",
                                calls |-> Mark(upto \o done, fault.fails),
                                forked |-> sp.forked]

priv_send_config(conf, fault, enforced, pid) ==
    LET begin == <<Msg("IMSG_RECONF_CONF", 0, -1, "")>>
        done == <<Msg("IMSG_RECONF_END", 0, -1, "")>>
    IN  IF 1 \in fault.fails
        THEN [end |-> "fail", calls |-> Mark(begin, fault.fails), forked |-> <<>>]
        ELSE LET sp == spawn_loop(conf, 1, 1, fault, enforced, pid)
             IN  IF sp.end # "return"
                 THEN [end |-> sp.end, calls |-> Mark(begin \o sp.calls, fault.fails),
                       forked |-> sp.forked]
                 ELSE LET dc == declare_loop(conf, 1)
                          upto == begin \o sp.calls \o dc.calls
                      IN  IF dc.end # "return"
                          THEN [end |-> "overflow", calls |-> Mark(upto, fault.fails),
                                forked |-> sp.forked]
                          ELSE [end |-> IF Len(upto) + 1 \in fault.fails
                                        THEN "fail" ELSE "ok",
                                calls |-> Mark(upto \o done, fault.fails),
                                forked |-> sp.forked]

NumLeaves(conf) == Cardinality({i \in 1..Len(conf) : ~conf[i].chain})

\* The faults that can strike the distribution of conf.
FaultsOf(conf) ==
    Faults(Len(priv_send_config(conf, NoFault, FALSE, 0).calls), NumLeaves(conf))

\* The faults drawn where the supervisor runs: none; the begin marker, the
\* message after it or the end marker not composed; socketpair or fork failing
\* for the first leaf.
LifeFaults(conf) ==
    LET n == Len(priv_send_config(conf, NoFault, FALSE, 0).calls)
    IN  {NoFault}
        \cup {[fails |-> {k}, sysAt |-> 0, sysCall |-> "none"] : k \in {1, 2, n}}
        \cup {[fails |-> {}, sysAt |-> 1, sysCall |-> c] :
                 c \in IF NumLeaves(conf) > 0 THEN {"socketpair", "fork"} ELSE {}}

\* ------------------------------------------- the distribution on its own
\* priv_send_config applied once to a configuration, as main does before
\* its pledge: the two children hold pids 1 and 2, the first filter gets 3.
DistConfigs == SmallConfigs \cup ExampleConfigs

NoDist == [conf |-> 0, end |-> "none", calls |-> <<>>, forked |-> <<>>]

DistInit ==
    /\ pc = "start"
    /\ env \in {[id |-> 1, filters |-> c] : c \in DistConfigs}
    /\ heap = {1}
    /\ procs = [frontend |-> [pid |-> 1, open |-> TRUE],
                engine |-> [pid |-> 2, open |-> TRUE]]
    /\ children = [p \in {1, 2} |-> "running"]
    /\ nextPid = 3
    /\ dist = NoDist
    /\ last = [op |-> "none", xconf |-> 0, ret |-> "none"]
    /\ log = {}
    /\ nreload = 0
    /\ nshutdown = 0
    /\ cleaned = FALSE
    /\ pledged = FALSE
    /\ closed = {}
    /\ reaped = NoReap
    /\ cmd = NoCmd

Distribute ==
    /\ dist.conf = 0
    /\ \E fault \in FaultsOf(env.filters) :
          LET r == priv_send_config(env.filters, fault, FALSE, nextPid)
          IN  dist' = [conf |-> env.id, end |-> r.end, calls |-> r.calls,
                       forked |-> r.forked]
    /\ UNCHANGED <<pc, env, heap, procs, children, nextPid, last, log, nreload,
                   nshutdown, cleaned, pledged, closed, reaped, cmd>>

DistNext == Distribute

SpecDist == DistInit /\ [][DistNext]_vars

\* ------------------------------------------------------- the supervisor
\* The configurations the file holds while the supervisor runs.
LifeConfigs == {Dangling, VirusAll, Mutual}

\* What parse_config(conffile) returns: NULL, or a new configuration.
NULL == [null |-> TRUE, filters |-> <<>>]

ParseResults == {NULL} \cup {[null |-> FALSE, filters |-> c] : c \in LifeConfigs}

NoProc == [pid |-> 0, open |-> FALSE]

Init ==
    /\ pc = "start"
    /\ env \in {[id |-> 1, filters |-> c] : c \in LifeConfigs}
    /\ heap = {1}
    /\ procs = [frontend |-> NoProc, engine |-> NoProc]
    /\ children = [p \in {} |-> "running"]
    /\ nextPid = 1
    /\ dist = NoDist
    /\ last = [op |-> "none", xconf |-> 0, ret |-> "none"]
    /\ log = {}
    /\ nreload = 0
    /\ nshutdown = 0
    /\ cleaned = FALSE
    /\ pledged = FALSE
    /\ closed = {}
    /\ reaped = NoReap
    /\ cmd = NoCmd

\* The children with the processes of pids forked added, running.
Forked(kids, pids) ==
    [p \in DOMAIN kids \cup {pids[k] : k \in 1..Len(pids)} |->
        IF p \in DOMAIN kids THEN kids[p] ELSE "running"]

Zombies(kids) == {p \in DOMAIN kids : kids[p] = "zombie"}

Reaped(kids, pids) == [p \in DOMAIN kids \ pids |-> kids[p]]

\* How a process ends that did not return from priv_send_config.
Ended(end) ==
    CASE end = "fatal" -> "fatal"
      [] end = "killed" -> "killed"
      [] end = "overflow" -> "crashed"

\* main from log_init to event_dispatch: the two children are executed,
\* connected to each other, sent the configuration; then the pledge.
Start ==
    /\ pc = "start"
    /\ \E fail \in {"none", "socketpair", "proc_compose", "pledge"},
          fault \in LifeFaults(env.filters), enforce \in BOOLEAN :
          LET two == Forked(children, <<nextPid, nextPid + 1>>)
              r == priv_send_config(env.filters, fault, FALSE, nextPid + 2)
          IN  /\ procs' = [frontend |-> [pid |-> nextPid, open |-> TRUE],
                           engine |-> [pid |-> nextPid + 1, open |-> TRUE]]
              /\ IF fail \in {"socketpair", "proc_compose"}
                 THEN /\ pc' = "fatal"
                      /\ children' = two
                      /\ nextPid' = nextPid + 2
                      /\ UNCHANGED <<dist, pledged>>
                 ELSE /\ children' = Forked(two, r.forked)
                      /\ nextPid' = nextPid + 2 + Len(r.forked)
                      /\ dist' = [conf |-> env.id, end |-> r.end, calls |-> r.calls,
                                  forked |-> r.forked]
                      /\ IF r.end \notin {"ok", "fail"}
                         THEN pc' = Ended(r.end) /\ UNCHANGED pledged
                         ELSE IF fail = "pledge"
                         THEN pc' = "fatal" /\ UNCHANGED pledged
                         ELSE pc' = "running" /\ pledged' = enforce
    /\ last' = [op |-> "main", xconf |-> 0, ret |-> "none"]
    /\ log' = IF pc' = "fatal" THEN {<<"crit", "fatal", "-">>} ELSE {}
    /\ UNCHANGED <<env, heap, nreload, nshutdown, cleaned, closed, reaped, cmd>>

\* The event loop runs handlers: event_dispatch has not returned.
InEventLoopOrWait == pc \in {"running", "loopexit", "wait"}

InEventLoop == pc \in {"running", "loopexit"}

\* priv_reload after priv_send_config(xconf), whose outcome is r: with
\* installs, config_clear(env); env = xconf; return 0.  Without, the return
\* of -1, or no return when priv_send_config did not return.
AfterSend(xconf, id, r, installs) ==
    [ret |-> CASE r.end = "ok" -> "0"
               [] r.end = "fail" -> "-1"
               [] OTHER -> "none",
     env |-> IF installs THEN [id |-> id, filters |-> xconf.filters] ELSE env,
     heap |-> IF installs THEN (heap \cup {id}) \ {env.id} ELSE heap \cup {id},
     sent |-> TRUE,
     dist |-> [conf |-> id, end |-> r.end, calls |-> r.calls, forked |-> r.forked]]

\* priv_reload(): xconf is what parse_config returned, id the identity of the
\* object it allocated.  ret is "0" or "-1", or "none" when the call did not
\* return; env and heap are the active configuration and the allocated
\* configurations it leaves.
priv_reload_direct(xconf, id, fault) ==
    IF xconf.null
    THEN [ret |-> "-1", env |-> [id |-> 0, filters |-> <<>>], heap |-> heap,
          sent |-> FALSE, dist |-> NoDist]
    ELSE LET r == priv_send_config(xconf.filters, fault, pledged, nextPid)
         IN  AfterSend(xconf, id, r, r.end = "ok")

priv_reload_unchecked(xconf, id, fault) ==
    IF xconf.null
    THEN [ret |-> "-1", env |-> env, heap |-> heap, sent |-> FALSE, dist |-> NoDist]
    ELSE LET r == priv_send_config(xconf.filters, fault, pledged, nextPid)
         IN  AfterSend(xconf, id, r, r.end \in {"ok", "fail"})

priv_reload(xconf, id, fault) ==
    IF xconf.null
    THEN [ret |-> "-1", env |-> env, heap |-> heap, sent |-> FALSE, dist |-> NoDist]
    ELSE LET r == priv_send_config(xconf.filters, fault, pledged, nextPid)
         IN  AfterSend(xconf, id, r, r.end = "ok")

\* A handler that calls priv_reload and logs what it returned: the SIGHUP
\* case of priv_sig_handler (log_warnx on failure, log_debug on success), the
\* IMSG_CTL_RELOAD case of priv_dispatch_frontend (log_warnx on both).
Reload(op) ==
    /\ InEventLoop
    /\ nreload < MaxReloads
    /\ \E xconf \in ParseResults :
          \E fault \in IF xconf.null THEN {NoFault} ELSE LifeFaults(xconf.filters) :
             \E r \in {priv_reload(xconf, nreload + 2, fault)} :
                 /\ env' = r.env
                 /\ heap' = r.heap
                 /\ IF r.sent
                    THEN /\ dist' = r.dist
                         /\ children' = Forked(children, r.dist.forked)
                         /\ nextPid' = nextPid + Len(r.dist.forked)
                    ELSE UNCHANGED <<dist, children, nextPid>>
                 /\ pc' = IF r.ret = "none" THEN Ended(r.dist.end) ELSE pc
                 /\ last' = [op |-> "priv_reload",
                              xconf |-> IF xconf.null THEN 0 ELSE nreload + 2,
                              ret |-> r.ret]
                 /\ log' = CASE r.ret = "-1" -> {<<"warn", "configuration reload failed", "-">>}
                             [] r.ret = "0" /\ op = "IMSG_CTL_RELOAD" ->
                                    {<<"warn", "configuration reloaded", "-">>}
                             [] r.ret = "0" /\ op = "SIGHUP" -> {}
                             [] r.dist.end = "fatal" -> {<<"crit", "fatal", "-">>}
                             [] OTHER -> {}
    /\ nreload' = nreload + 1
    /\ UNCHANGED <<procs, nshutdown, cleaned, pledged, closed, reaped, cmd>>

SigHup == Reload("SIGHUP")

CtlReload == Reload("IMSG_CTL_RELOAD")

\* The other messages of the frontend: IMSG_CTL_LOG_VERBOSE sets the log
\* verbosity, IMSG_CTL_SHOW_MAIN_INFO is answered with IMSG_CTL_END, any other
\* type is logged with log_debug.
DispatchFrontend ==
    /\ InEventLoop
    /\ \E type \in {"IMSG_CTL_LOG_VERBOSE", "IMSG_CTL_SHOW_MAIN_INFO", "other"} :
          log' = {}
    /\ UNCHANGED <<pc, env, heap, procs, children, nextPid, dist, last, nreload,
                   nshutdown, cleaned, pledged, closed, reaped, cmd>>

\* A message of the engine: every type is logged with log_debug and ignored.
DispatchEngine ==
    /\ InEventLoop
    /\ log' = {}
    /\ UNCHANGED <<pc, env, heap, procs, children, nextPid, dist, last, nreload,
                   nshutdown, cleaned, pledged, closed, reaped, cmd>>

\* priv_dispatch_frontend or priv_dispatch_engine called with imsg == NULL,
\* the channel being closed: event_loopexit(NULL), after which the loop
\* finishes the handlers that are due and event_dispatch returns.
DispatchClosedIgnored ==
    /\ InEventLoop
    /\ \E ch \in {"frontend", "engine"} : closed' = closed \cup {ch}
    /\ log' = {}
    /\ UNCHANGED <<pc, env, heap, procs, children, nextPid, dist, last, nreload,
                   nshutdown, cleaned, pledged, reaped, cmd>>

DispatchClosed ==
    /\ InEventLoop
    /\ \E ch \in {"frontend", "engine"} : closed' = closed \cup {ch}
    /\ pc' = "loopexit"
    /\ log' = {}
    /\ UNCHANGED <<env, heap, procs, children, nextPid, dist, last, nreload,
                   nshutdown, cleaned, pledged, reaped, cmd>>

\* The status wait and waitpid report of a terminated child: killed by a
\* signal, exited with a status other than 0, exited with 0.  It is seen
\* nowhere but in their caller, and is drawn where they return it.
Statuses == {"signaled", "exited_nz", "exited_0"}

\* The log_warnx lines of the SIGCHLD case for one reaped child, less the pid
\* and the signal or status they print; a normal exit is a log_debug line.
ReapLine(status) ==
    CASE status = "signaled" -> {<<"warn", "process terminated by signal", "-">>}
      [] status = "exited_nz" -> {<<"warn", "process exited with status", "-">>}
      [] status = "exited_0" -> {}

\* } while (pid > 0 || (pid == -1 && errno == EINTR)); of the SIGCHLD case.
SigchldLoopOnce(pid, errno) == pid = -1 /\ errno = "EINTR"

SigchldLoopContinues(pid, errno) == pid > 0 \/ (pid = -1 /\ errno = "EINTR")

\* The do-while of the SIGCHLD case from one call of waitpid(-1, &status,
\* WNOHANG) on: the pids it reaps.  waitpid returns a terminated child when
\* there is one; otherwise 0 (children, none terminated) or -1 with ECHILD
\* (no child), and the loop ends.
RECURSIVE waitpid_loop(_)
waitpid_loop(kids) ==
    IF Zombies(kids) = {} THEN {}
    ELSE LET pid == CHOOSE p \in Zombies(kids) : \A q \in Zombies(kids) : p <= q
         IN  IF SigchldLoopContinues(pid, "none")
             THEN {pid} \cup waitpid_loop(Reaped(kids, {pid}))
             ELSE {pid}

\* The SIGCHLD case of priv_sig_handler.  The first waitpid may return -1
\* with EINTR (eintr); the log_warnx lines are those of the children reaped.
SigChld ==
    /\ InEventLoop
    /\ \E eintr \in BOOLEAN :
          LET pids == IF eintr /\ ~SigchldLoopContinues(-1, "EINTR") THEN {}
                      ELSE waitpid_loop(children)
          IN  /\ children' = Reaped(children, pids)
              /\ \E sts \in SUBSET Statuses :
                    /\ (sts = {}) = (pids = {})
                    /\ Cardinality(sts) <= Cardinality(pids)
                    /\ log' = UNION {ReapLine(st) : st \in sts}
    /\ UNCHANGED <<pc, env, heap, procs, nextPid, dist, last, nreload, nshutdown,
                   cleaned, pledged, closed, reaped, cmd>>

\* priv_shutdown() up to its wait loop: both channels freed, the active
\* configuration cleared.
ShutdownBegin(op) ==
    /\ nshutdown' = nshutdown + 1
    /\ procs' = [frontend |-> [pid |-> procs.frontend.pid, open |-> FALSE],
                 engine |-> [pid |-> procs.engine.pid, open |-> FALSE]]
    /\ heap' = heap \ {env.id}
    /\ log' = {}
    /\ last' = [op |-> op, xconf |-> 0, ret |-> "none"]
    /\ pc' = "wait"
    /\ UNCHANGED <<env, children, nextPid, dist, nreload, cleaned, pledged, closed, reaped, cmd>>

\* The SIGTERM and SIGINT cases of priv_sig_handler.
SigTerm ==
    /\ InEventLoop
    /\ \E sig \in {"SIGTERM", "SIGINT"} : ShutdownBegin("signal")

\* event_dispatch returns after event_loopexit; main calls priv_shutdown.
MainShutdown ==
    /\ pc = "loopexit"
    /\ ShutdownBegin("event_dispatch")

\* What wait(&status) can return: a terminated child; -1 with EINTR while it
\* blocks on running children; -1 with ECHILD when there is no child.
WaitResults(kids) ==
    {[pid |-> p, errno |-> "none", status |-> st] : p \in Zombies(kids), st \in Statuses}
    \cup (IF Zombies(kids) = {} /\ DOMAIN kids # {}
          THEN {[pid |-> -1, errno |-> "EINTR", status |-> "none"]} ELSE {})
    \cup (IF DOMAIN kids = {}
          THEN {[pid |-> -1, errno |-> "ECHILD", status |-> "none"]} ELSE {})

\* while (pid != -1 || (pid == -1 && errno == EINTR))
WaitLoopUntilError(pid, errno) == pid # -1

WaitLoopContinues(pid, errno) == pid # -1 \/ (pid = -1 /\ errno = "EINTR")

\* frontend_pid = proc_getpid(p_frontend); engine_pid = proc_getpid(p_frontend)
engine_pid == procs.frontend.pid

\* Whose pid a reaped pid is, by the handles of the supervisor.
ChildOf(pid) ==
    IF pid = procs.frontend.pid THEN "frontend"
    ELSE IF pid = procs.engine.pid THEN "engine"
    ELSE "filter"

\* The log_warnx line of the wait loop for one reaped child: the role the
\* line names, and the child the pid belonged to.
ShutdownLine(pid, status) ==
    IF status = "signaled"
    THEN {<<"warn", IF pid = engine_pid THEN "engine terminated" ELSE "frontend terminated",
            ChildOf(pid)>>}
    ELSE {}

\* One turn of the wait loop of priv_shutdown, and what follows the loop when
\* it ends: control_cleanup(csock), exit(0).
ShutdownWait ==
    /\ pc = "wait"
    /\ \E r \in WaitResults(children) :
          /\ children' = IF r.pid = -1 THEN children ELSE Reaped(children, {r.pid})
          /\ reaped' = [status |-> r.status]
          /\ IF r.pid = -1 /\ r.errno \notin {"EINTR", "ECHILD"}
             THEN /\ pc' = "fatal"
                  /\ log' = {<<"crit", "wait", "-">>}
                  /\ UNCHANGED cleaned
             ELSE IF WaitLoopContinues(r.pid, r.errno)
             THEN /\ pc' = "wait"
                  /\ log' = IF r.pid = -1 THEN {} ELSE ShutdownLine(r.pid, r.status)
                  /\ UNCHANGED cleaned
             ELSE /\ pc' = "exit0"
                  /\ log' = {}
                  /\ cleaned' = TRUE
    /\ UNCHANGED <<env, heap, procs, nextPid, dist, last, nreload, nshutdown, pledged,
                   closed, cmd>>

\* The running children that may terminate next: the frontend, the engine,
\* and the oldest running filter process.  The supervisor keeps no pid of a
\* filter process (priv_send_filter_proc drops the result of fork), so filter
\* processes differ by their pid alone and terminate here in pid order.
MayExit(kids) ==
    LET running == {p \in DOMAIN kids : kids[p] = "running"}
        filters == running \ {procs.frontend.pid, procs.engine.pid}
    IN  (running \ filters)
        \cup {p \in filters : \A q \in filters : p <= q}

\* A running child terminates.
ChildExits ==
    /\ pc \in {"running", "loopexit", "wait"}
    /\ \E p \in MayExit(children) :
          children' = [children EXCEPT ![p] = "zombie"]
    /\ UNCHANGED <<pc, env, heap, procs, nextPid, dist, last, log, nreload,
                   nshutdown, cleaned, pledged, closed, reaped, cmd>>

Next ==
    \/ Start
    \/ SigHup
    \/ CtlReload
    \/ DispatchFrontend
    \/ DispatchEngine
    \/ DispatchClosed
    \/ SigChld
    \/ SigTerm
    \/ MainShutdown
    \/ ShutdownWait
    \/ ChildExits

Spec == Init /\ [][Next]_vars

\* ------------------------------------------------------------------- C1
\* The step is a call of priv_reload.
ReloadStep == nreload' = nreload + 1

\* C1: a reload whose parse_config fails returns -1, runs no distribution (no
\* message to the engine, no filter process forked) and leaves the active
\* configuration, the allocated configurations, the two handles and the
\* state of the supervisor as they were.
C1_FailedParseChangesNothing ==
    [][(ReloadStep /\ last'.xconf = 0) =>
          /\ last'.ret = "-1"
          /\ dist' = dist
          /\ children' = children
          /\ nextPid' = nextPid
          /\ env' = env
          /\ heap' = heap
          /\ procs' = procs
          /\ pc' = pc]_vars

\* A reload that installed a configuration, then one whose parse failed.
C1_Witness ==
    /\ last.op = "priv_reload"
    /\ last.xconf = 0
    /\ last.ret = "-1"
    /\ nreload = 2
    /\ env.id = 2
    /\ pc = "running"

\* ------------------------------------------------------------------- C2
\* C2: a reload whose parse succeeds distributes the parsed configuration; it
\* makes it the active one and frees the previous one if and only if
\* priv_send_config returns 0; when priv_send_config returns -1 the active
\* configuration is the one before the reload, still allocated, priv_reload
\* returns -1 and the supervisor stays where it was in the event loop.
C2_InstalledIffDistributed ==
    [][(ReloadStep /\ last'.xconf # 0) =>
          /\ dist'.conf = last'.xconf
          /\ (dist'.end = "ok") <=> (env'.id = last'.xconf)
          /\ (dist'.end = "ok") <=> (env.id \notin heap')
          /\ (dist'.end = "ok") <=> (last'.ret = "0")
          /\ dist'.end = "ok" => env'.id \in heap'
          /\ dist'.end # "ok" => env' = env
          /\ dist'.end = "fail" =>
                /\ last'.ret = "-1"
                /\ pc' = pc
                /\ procs' = procs]_vars

\* A reload that installed a configuration, then one whose distribution
\* failed.
C2_Witness ==
    /\ last.op = "priv_reload"
    /\ last.xconf = 3
    /\ last.ret = "-1"
    /\ dist.end = "fail"
    /\ env.id = 2
    /\ heap = {2, 3}
    /\ pc = "running"

\* ------------------------------------------------------------------- C3
\* C3: priv_shutdown runs at most once; SIGTERM or SIGINT handled in the event
\* loop starts it; once it has started no reload runs and it does not start
\* again; the process, once in priv_shutdown, leaves it only by exit(0), after
\* control_cleanup.
C3_OneShutdown ==
    /\ [](/\ nshutdown <= 1
          /\ nshutdown = 1 <=> pc \in {"wait", "exit0"}
          /\ pc = "exit0" => cleaned)
    /\ [][/\ nshutdown >= 1 => (nreload' = nreload /\ nshutdown' = nshutdown)
          /\ (last'.op = "signal" /\ last.op # "signal") =>
                (nshutdown = 0 /\ nshutdown' = 1 /\ pc' = "wait")]_vars

\* The process has exited from a priv_shutdown that a signal started, after a
\* reload.
C3_Witness ==
    /\ pc = "exit0"
    /\ last.op = "signal"
    /\ nshutdown = 1
    /\ cleaned
    /\ nreload > 0

\* ------------------------------------------------------------------- C4
\* C4: priv_shutdown reaches exit(0) only when no child of the supervisor,
\* running or terminated, is left un-reaped.
C4_AllChildrenReaped == pc = "exit0" => DOMAIN children = {}

\* The process has exited after filters were forked at start and at a reload.
C4_Witness ==
    /\ pc = "exit0"
    /\ nreload > 0
    /\ nextPid >= 5
    /\ DOMAIN children = {}

\* ------------------------------------------------------------------ C10
\* C10: no reload ends in fatal(): after every call of priv_reload the
\* supervisor is still in its event loop.
C10_ReloadNeverFatal == ~(last.op = "priv_reload" /\ pc = "fatal")

\* ------------------------------------------- main before the children
\* Most -v options of an enumerated command line.
MaxVerbose == 2

\* char *rargv[7]
RargvSlots == 0..6

\* The command lines: which options they hold (-D, which only defines a
\* macro, left out), how many -v, whether an option is unknown (bad) and how
\* many words follow the options (extra).
CmdLines ==
    [d : BOOLEAN, E : BOOLEAN, F : BOOLEAN, f : BOOLEAN, n : BOOLEAN,
     s : BOOLEAN, v : 0..MaxVerbose, bad : BOOLEAN, extra : 0..1]

\* main entered: the command line, what parse_config(conffile) will return,
\* the effective uid, whether getpwnam(SMTPFD_USER) finds the user; rargv is
\* uninitialized.
MainInit ==
    /\ pc = "start"
    /\ env = [id |-> 0, filters |-> <<>>]
    /\ heap = {}
    /\ procs = [frontend |-> NoProc, engine |-> NoProc]
    /\ children = [p \in {} |-> "running"]
    /\ nextPid = 1
    /\ dist = NoDist
    /\ last = [op |-> "none", xconf |-> 0, ret |-> "none"]
    /\ log = {}
    /\ nreload = 0
    /\ nshutdown = 0
    /\ cleaned = FALSE
    /\ pledged = FALSE
    /\ closed = {}
    /\ reaped = NoReap
    /\ cmd \in {[at |-> "getopt", line |-> l, conf |-> c, euid |-> u, user |-> g,
                 cmd_opts |-> {}, debug |-> FALSE, csock |-> "SMTPFD_SOCKET",
                 argc |-> 0, rargc |-> 0, rargv |-> [i \in RargvSlots |-> "?"],
                 writes |-> {}, ub |-> "none", execs |-> <<>>,
                 code |-> "none", out |-> "none"] :
                    l \in CmdLines, c \in {"valid", "invalid"}, u \in {0, 1000},
                    g \in BOOLEAN}

\* exit(code) after printing out.
Exit(c, code, out) == [c EXCEPT !.at = "exit", !.code = code, !.out = out]

\* The getopt loop, argc -= optind, and the usage checks that follow.
Getopt ==
    /\ cmd.at = "getopt"
    /\ LET l == cmd.line
           opts == (IF l.n THEN {"OPT_NOACTION"} ELSE {})
                   \cup (IF l.v >= 1 THEN {"OPT_VERBOSE"} ELSE {})
                   \cup (IF l.v >= 2 THEN {"OPT_VERBOSE2"} ELSE {})
           c == [cmd EXCEPT !.cmd_opts = opts, !.debug = l.d,
                            !.csock = IF l.s THEN "optarg" ELSE "SMTPFD_SOCKET",
                            !.argc = l.extra]
       IN  cmd' = IF l.bad \/ c.argc > 0 \/ (l.E /\ l.F)
                  THEN Exit(c, "1", "usage")
                  ELSE [c EXCEPT !.at = "role"]
    /\ UNCHANGED <<pc, env, heap, procs, children, nextPid, dist, last, log,
                   nreload, nshutdown, cleaned, pledged, closed, reaped>>

\* if (engine_flag) engine(...); else if (frontend_flag) frontend(...): the
\* process becomes the engine or the frontend.
Role ==
    /\ cmd.at = "role"
    /\ cmd' = [cmd EXCEPT !.at = CASE cmd.line.E -> "engine"
                                   [] cmd.line.F -> "frontend"
                                   [] OTHER -> "parse"]
    /\ UNCHANGED <<pc, env, heap, procs, children, nextPid, dist, last, log,
                   nreload, nshutdown, cleaned, pledged, closed, reaped>>

\* if ((env = parse_config(conffile)) == NULL) exit(1);
ParseConfig ==
    /\ cmd.at = "parse"
    /\ IF cmd.conf = "invalid"
       THEN cmd' = Exit(cmd, "1", "none") /\ UNCHANGED <<env, heap>>
       ELSE /\ cmd' = [cmd EXCEPT !.at = "noaction"]
            /\ \E c \in LifeConfigs : env' = [id |-> 1, filters |-> c]
            /\ heap' = {1}
    /\ UNCHANGED <<pc, procs, children, nextPid, dist, last, log, nreload,
                   nshutdown, cleaned, pledged, closed, reaped>>

\* if (cmd_opts & OPT_NOACTION) { config_print or "configuration OK"; exit(0); }
NoActionIgnored ==
    /\ cmd.at = "noaction"
    /\ cmd' = [cmd EXCEPT !.at = "privcheck"]
    /\ UNCHANGED <<pc, env, heap, procs, children, nextPid, dist, last, log,
                   nreload, nshutdown, cleaned, pledged, closed, reaped>>

NoAction ==
    /\ cmd.at = "noaction"
    /\ cmd' = IF "OPT_NOACTION" \in cmd.cmd_opts
              THEN Exit(cmd, "0", IF "OPT_VERBOSE" \in cmd.cmd_opts
                                  THEN "config_print" ELSE "configuration OK")
              ELSE [cmd EXCEPT !.at = "privcheck"]
    /\ UNCHANGED <<pc, env, heap, procs, children, nextPid, dist, last, log,
                   nreload, nshutdown, cleaned, pledged, closed, reaped>>

\* geteuid() and getpwnam(SMTPFD_USER), fatalx on either.
PrivCheck ==
    /\ cmd.at = "privcheck"
    /\ cmd' = IF cmd.euid # 0 THEN Exit(cmd, "1", "need root privileges")
              ELSE IF ~cmd.user THEN Exit(cmd, "1", "unknown user")
              ELSE [cmd EXCEPT !.at = "argv"]
    /\ UNCHANGED <<pc, env, heap, procs, children, nextPid, dist, last, log,
                   nreload, nshutdown, cleaned, pledged, closed, reaped>>

\* rargv[idx] = val: the slot is written when idx is one of the array; the
\* index is recorded either way.
Store(c, idx, val) ==
    [c EXCEPT !.writes = @ \cup {idx},
              !.rargv = IF idx \in RargvSlots THEN [@ EXCEPT ![idx] = val] ELSE @]

\* rargv[rargc++] = val for each val of vals, in order.
RECURSIVE Push(_, _)
Push(c, vals) ==
    IF vals = <<>> THEN c
    ELSE Push([Store(c, c.rargc, Head(vals)) EXCEPT !.rargc = @ + 1], Tail(vals))

\* The argument vector proc_exec is given: rargv up to its first NULL.
RECURSIVE Args(_, _)
Args(rargv, i) ==
    IF i \notin RargvSlots \/ rargv[i] = "NULL" THEN <<>>
    ELSE <<rargv[i]>> \o Args(rargv, i + 1)

\* rargc = 0 ... rargv[rargc++] = NULL; p_frontend = proc_exec(PROC_FRONTEND, rargv)
FrontendArgv ==
    /\ cmd.at = "argv"
    /\ LET vals == <<"argv0", "-F">>
                   \o (IF cmd.debug THEN <<"-d">> ELSE <<>>)
                   \o (IF "OPT_VERBOSE" \in cmd.cmd_opts THEN <<"-v">> ELSE <<>>)
                   \o <<"-s", cmd.csock, "NULL">>
           c == Push([cmd EXCEPT !.rargc = 0], vals)
       IN  cmd' = [c EXCEPT !.at = "engine_argv",
                            !.execs = Append(@, <<"PROC_FRONTEND", Args(c.rargv, 0)>>)]
    /\ UNCHANGED <<pc, env, heap, procs, children, nextPid, dist, last, log,
                   nreload, nshutdown, cleaned, pledged, closed, reaped>>

\* rargv[1] = "-E"; rargv[argc - 3] = NULL; p_engine = proc_exec(PROC_ENGINE,
\* rargv).  A store outside the array is undefined: it goes unnoticed,
\* overwrites another object of the frame of main, or ends the process.
EngineArgv ==
    /\ cmd.at = "engine_argv"
    /\ LET c == Store(Store(cmd, 1, "-E"), cmd.argc - 3, "NULL")
       IN  \E ub \in IF cmd.argc - 3 \in RargvSlots THEN {"none"}
                     ELSE {"unnoticed", "overwrote", "crashed"} :
              cmd' = IF ub = "crashed"
                     THEN [c EXCEPT !.at = "crashed", !.ub = ub]
                     ELSE [c EXCEPT !.at = "ready", !.ub = ub,
                                    !.execs = Append(@, <<"PROC_ENGINE", Args(c.rargv, 0)>>)]
    /\ UNCHANGED <<pc, env, heap, procs, children, nextPid, dist, last, log,
                   nreload, nshutdown, cleaned, pledged, closed, reaped>>

MainNext ==
    \/ Getopt
    \/ Role
    \/ ParseConfig
    \/ NoAction
    \/ PrivCheck
    \/ FrontendArgv
    \/ EngineArgv

SpecMain == MainInit /\ [][MainNext]_vars

\* ------------------------------------------------------------------ C13
\* The command line asks for the supervisor to check the configuration: -n,
\* no unknown option, no trailing word, neither -E nor -F.
CheckOnly ==
    /\ cmd.line.n
    /\ ~cmd.line.bad
    /\ cmd.line.extra = 0
    /\ ~cmd.line.E
    /\ ~cmd.line.F

\* C13 as stated: with -n the program never reaches the privilege check, runs
\* no child, and exits 1 on an invalid configuration and 0 with
\* "configuration OK" on a valid one, with or without -v.
C13_Original ==
    CheckOnly =>
        /\ cmd.at \notin {"privcheck", "argv", "engine_argv", "ready", "crashed"}
        /\ cmd.execs = <<>>
        /\ cmd.at = "exit" =>
              /\ cmd.conf = "invalid" => cmd.code = "1"
              /\ cmd.conf = "valid" =>
                    cmd.code = "0" /\ cmd.out = "configuration OK"

\* C13 (amended): with -n the program never reaches the privilege check, runs
\* no child, and exits 1 on an invalid configuration, printing nothing of its
\* own, and 0 on a valid one, printing "configuration OK" when no -v was given
\* and the listing of the configuration (config_print) when -v was given.
C13_NoActionChecksOnly ==
    CheckOnly =>
        /\ cmd.at \notin {"privcheck", "argv", "engine_argv", "ready", "crashed"}
        /\ cmd.execs = <<>>
        /\ cmd.at = "exit" =>
              /\ cmd.conf = "invalid" => (cmd.code = "1" /\ cmd.out = "none")
              /\ cmd.conf = "valid" =>
                    /\ cmd.code = "0"
                    /\ cmd.out = IF cmd.line.v > 0 THEN "config_print"
                                 ELSE "configuration OK"

\* -n -v -d by a user other than root, on a valid configuration.
C13_Witness ==
    /\ CheckOnly
    /\ cmd.at = "exit"
    /\ cmd.conf = "valid"
    /\ cmd.line.v > 0
    /\ cmd.line.d
    /\ cmd.euid # 0
    /\ cmd.code = "0"
    /\ cmd.out = "config_print"

\* ------------------------------------------------------------------ C20
\* C20: every store into rargv uses an index of the array.
C20_RargvWritesInBounds == cmd.at # "started" => cmd.writes \subseteq RargvSlots

\* ------------------------------------------------------------------ C11
\* The supervisor under its scheduler: event_dispatch returns once the loop
\* has run the handlers that were due when event_loopexit was called, and
\* main then calls priv_shutdown.
FairSpec == Spec /\ WF_vars(MainShutdown)

\* The process was ended inside a reload (fatal, a pledge violation, a stack
\* overrun) or inside main before the event loop.
Died == pc \in {"fatal", "killed", "crashed"}

SigChldStep ==
    /\ InEventLoop
    /\ DOMAIN children' # DOMAIN children
    /\ DOMAIN children' \subseteq DOMAIN children

\* C12: one handling of SIGCHLD reaps every child that had terminated, and
\* no other; the children still running stay, and the handler returns with
\* them running; the active configuration, the allocated configurations, the
\* handles, the distribution and the position of the supervisor are unchanged
\* and nothing is forked, whatever the exit statuses.
C12_SigchldDrainsAll ==
    [][SigChldStep =>
          /\ DOMAIN children \ DOMAIN children' = Zombies(children)
          /\ Zombies(children') = {}
          /\ \A p \in DOMAIN children' : children'[p] = children[p]
          /\ pc' = pc
          /\ env' = env
          /\ heap' = heap
          /\ procs' = procs
          /\ nextPid' = nextPid
          /\ dist' = dist
          /\ nreload' = nreload
          /\ nshutdown' = nshutdown]_vars

\* One handling reaped a child killed by a signal and a child that exited
\* with a non-zero status, other children running, the supervisor in Running.
C12_Witness ==
    /\ pc = "running"
    /\ log = {<<"warn", "process terminated by signal", "-">>,
              <<"warn", "process exited with status", "-">>}
    /\ \E p \in DOMAIN children : children[p] = "running"

\* ------------------------------------------------------------------ C14
\* C14: no step of the supervisor after its pledge makes a system call
\* outside the promises: the kernel that enforces the pledge never ends it.
C14_WithinPledge == pledged => pc # "killed"

\* ------------------------------------------------------------------ C15
\* C15: while the supervisor is in its event loop the one smtpfd_conf object
\* allocated is the active one: a reload frees what it does not install.
C15_OneLiveConfiguration == InEventLoop => heap = {env.id}

\* ------------------------------------------------------------------ C16
\* C16: in priv_shutdown, a reaped child that was killed by a signal or
\* exited with a non-zero status has a log_warnx line.
C16_AbnormalExitLogged ==
    (pc = "wait" /\ reaped.status \in {"signaled", "exited_nz"}) => log # {}

\* ------------------------------------------------------------------ C19
\* C19: the line the wait loop of priv_shutdown logs for a reaped child names
\* the engine only for the pid of p_engine and the frontend only for the pid
\* of p_frontend.
C19_RoleMatchesPid ==
    pc = "wait" =>
        \A line \in log :
            /\ line[2] = "engine terminated" => line[3] = "engine"
            /\ line[2] = "frontend terminated" => line[3] = "frontend"

\* ------------------------------------------------ reading a distribution
\* The type and the payload of each proc_compose call of the last
\* distribution, in order.
Sent == [k \in 1..Len(dist.calls) |-> <<dist.calls[k].type, dist.calls[k].data>>]

\* The distribution ran through both loops to its end marker.
Completed ==
    /\ Len(dist.calls) > 0
    /\ dist.calls[Len(dist.calls)].type = "IMSG_RECONF_END"

\* No proc_compose call of the distribution failed.
AllQueued == \A k \in 1..Len(dist.calls) : dist.calls[k].ok

Count(type, name) ==
    Cardinality({k \in 1..Len(dist.calls) :
                    dist.calls[k].type = type /\ dist.calls[k].data = name})

\* The chains of conf whose reference list names n.
Referrers(conf, n) ==
    {i \in 1..Len(conf) :
        conf[i].chain /\ \E k \in 1..Len(conf[i].argv) : conf[i].argv[k] = n}

RECURSIVE Concat(_)
Concat(ss) == IF ss = <<>> THEN <<>> ELSE Head(ss) \o Concat(Tail(ss))

\* One rewriting pass over a list of names: a chain's name is replaced by its
\* reference list, a leaf's name stays, an undefined name is dropped.
ExpandOnce(conf, names) ==
    Concat([k \in 1..Len(names) |->
        IF \A i \in 1..Len(conf) : conf[i].name # names[k] THEN <<>>
        ELSE LET e == conf[CHOOSE i \in 1..Len(conf) : conf[i].name = names[k]]
             IN  IF e.chain THEN e.argv ELSE <<names[k]>>])

RECURSIVE ExpandTimes(_, _, _)
ExpandTimes(conf, names, n) ==
    IF n = 0 THEN names ELSE ExpandTimes(conf, ExpandOnce(conf, names), n - 1)

\* The flattening of a reference list down to leaf names: as many passes as
\* the configuration has entries leave only leaf names when it has no cycle.
Flattened(conf, names) == ExpandTimes(conf, names, Len(conf))

\* n reaches m through chain references.
RECURSIVE ReachIn(_, _, _, _)
ReachIn(conf, n, m, steps) ==
    /\ steps > 0
    /\ \E i \in 1..Len(conf) :
          /\ conf[i].name = n
          /\ conf[i].chain
          /\ \E k \in 1..Len(conf[i].argv) :
                \/ conf[i].argv[k] = m
                \/ ReachIn(conf, conf[i].argv[k], m, steps - 1)

Acyclic(conf) ==
    \A i \in 1..Len(conf) : ~ReachIn(conf, conf[i].name, conf[i].name, Len(conf))

\* The IMSG_RECONF_FILTER_NODE payloads composed right after call k.
RECURSIVE NodesAfter(_)
NodesAfter(k) ==
    IF k + 1 <= Len(dist.calls) /\ dist.calls[k + 1].type = "IMSG_RECONF_FILTER_NODE"
    THEN <<dist.calls[k + 1].data>> \o NodesAfter(k + 1)
    ELSE <<>>

\* The members composed after the declaration of the entry called name.
MembersOf(name) ==
    NodesAfter(CHOOSE k \in 1..Len(dist.calls) :
                  dist.calls[k].type = "IMSG_RECONF_FILTER" /\ dist.calls[k].data = name)

C6_ChainMembersFlattened ==
    (/\ Acyclic(env.filters)
     /\ dist.conf # 0
     /\ dist.calls[1].ok
     /\ dist.end \notin {"fatal", "killed"}) =>
        /\ Completed
        /\ \A i \in 1..Len(env.filters) :
              env.filters[i].chain =>
                  MembersOf(env.filters[i].name)
                      = Flattened(env.filters, env.filters[i].argv)

\* The chain X over [A, B], B a chain over [C, D], delivered as [A, C, D];
\* and a chain with an undefined reference delivered without it.
C6_Witness ==
    /\ Completed
    /\ \/ /\ env.filters = Nested
          /\ MembersOf("X") = <<"A", "C", "D">>
       \/ /\ env.filters = Deep
          /\ MembersOf("top") = <<"l1", "l2", "l1">>

\* ------------------------------------------------------------------- C7
\* C7 as stated: the distribution of leaf virus and chain all over [virus],
\* every message queued, is begin; spawn(virus); declare(virus);
\* declare(all); member(virus); end, and the declaration of a leaf is
\* followed by no member message.
C7_Original ==
    /\ (env.filters = VirusAll /\ dist.end = "ok" /\ AllQueued) =>
          Sent = <<<<"IMSG_RECONF_CONF", "">>,
                   <<"IMSG_RECONF_FILTER_PROC", "virus">>,
                   <<"IMSG_RECONF_FILTER", "virus">>,
                   <<"IMSG_RECONF_FILTER", "all">>,
                   <<"IMSG_RECONF_FILTER_NODE", "virus">>,
                   <<"IMSG_RECONF_END", "">>>>
    /\ Completed =>
          \A i \in 1..Len(env.filters) :
              ~env.filters[i].chain => MembersOf(env.filters[i].name) = <<>>

\* C7 (amended): the distribution of leaf virus and chain all over [virus],
\* every message queued, is begin; spawn(virus); declare(virus);
\* member(virus); declare(all); member(virus); end, and in every completed
\* distribution the declaration of a leaf is followed by exactly one member
\* message, which carries the leaf's own name.
C7_LeafIsItsOwnMember ==
    /\ (env.filters = VirusAll /\ dist.end = "ok" /\ AllQueued) =>
          Sent = <<<<"IMSG_RECONF_CONF", "">>,
                   <<"IMSG_RECONF_FILTER_PROC", "virus">>,
                   <<"IMSG_RECONF_FILTER", "virus">>,
                   <<"IMSG_RECONF_FILTER_NODE", "virus">>,
                   <<"IMSG_RECONF_FILTER", "all">>,
                   <<"IMSG_RECONF_FILTER_NODE", "virus">>,
                   <<"IMSG_RECONF_END", "">>>>
    /\ Completed =>
          \A i \in 1..Len(env.filters) :
              ~env.filters[i].chain =>
                  MembersOf(env.filters[i].name) = <<env.filters[i].name>>

C7_Witness == env.filters = VirusAll /\ dist.end = "ok" /\ AllQueued

\* ------------------------------------------------------------------- C8
\* The payloads of the calls of one type, in order.
DataOf(type) ==
    LET picked == SelectSeq(dist.calls, LAMBDA m : m.type = type)
    IN  [k \in 1..Len(picked) |-> picked[k].data]

LeafNames(conf) ==
    LET leaves == SelectSeq(conf, LAMBDA f : ~f.chain)
    IN  [k \in 1..Len(leaves) |-> leaves[k].name]

\* C8 as stated: in a completed distribution no leaf's spawn or declare
\* message comes after a chain's declare message.
C8_Original ==
    Completed =>
        \A j, k \in 1..Len(dist.calls) :
            (/\ j < k
             /\ dist.calls[j].type = "IMSG_RECONF_FILTER"
             /\ \E i \in 1..Len(env.filters) :
                   env.filters[i].chain /\ env.filters[i].name = dist.calls[j].data)
            => ~(/\ dist.calls[k].type \in {"IMSG_RECONF_FILTER", "IMSG_RECONF_FILTER_PROC"}
                 /\ \E i \in 1..Len(env.filters) :
                       ~env.filters[i].chain /\ env.filters[i].name = dist.calls[k].data)

\* C8 (amended): a completed distribution is the begin marker; the spawn
\* messages of the leaves, in configuration order; then for every entry, leaf
\* or chain, in configuration order, its declare message immediately followed
\* by its members (the leaf itself, the flattened references of a chain);
\* and last the end marker.  No spawn message comes after a declare message.
C8_FixedOrder ==
    Completed =>
        LET conf == env.filters
            nl == NumLeaves(conf)
        IN  /\ Sent[1] = <<"IMSG_RECONF_CONF", "">>
            /\ Count("IMSG_RECONF_CONF", "") = 1
            /\ Count("IMSG_RECONF_END", "") = 1
            /\ \A k \in 1..Len(dist.calls) :
                  dist.calls[k].type = "IMSG_RECONF_FILTER_PROC" <=> k \in 2..(nl + 1)
            /\ DataOf("IMSG_RECONF_FILTER_PROC") = LeafNames(conf)
            /\ DataOf("IMSG_RECONF_FILTER") = [i \in 1..Len(conf) |-> conf[i].name]
            /\ Len(dist.calls) >= nl + 2
            /\ nl + 2 < Len(dist.calls) => dist.calls[nl + 2].type = "IMSG_RECONF_FILTER"
            /\ \A i \in 1..Len(conf) :
                  MembersOf(conf[i].name)
                      = IF conf[i].chain THEN Flattened(conf, conf[i].argv)
                        ELSE <<conf[i].name>>

\* A completed distribution of a configuration that lists a chain before a
\* leaf.
C8_Witness ==
    /\ Completed
    /\ dist.end = "ok"
    /\ \E i, j \in 1..Len(env.filters) :
          i < j /\ env.filters[i].chain /\ ~env.filters[j].chain

\* ------------------------------------------------------------------- C9
\* C9: the resolution of the chains ends for every configuration; the
\* recursion of priv_send_filter_conf never overruns the stack.
C9_ResolverTerminates == dist.end # "overflow"

\* ------------------------------------------------------------------ C17
\* The descriptors of filter channels the supervisor holds once a
\* distribution is over.  priv_send_filter_proc closes sp[0] and gives sp[1]
\* to proc_compose; it never closes sp[1] itself, so sp[1] leaves the
\* supervisor only with a message that proc_compose queued.
HeldFds(calls) ==
    {calls[k].fd : k \in {j \in 1..Len(calls) : calls[j].fd # -1 /\ ~calls[j].ok}}

\* C17: after priv_send_filter_proc returned, whatever proc_compose returned,
\* the supervisor holds no descriptor of the filter's channel.
C17_NoDescriptorKept == HeldFds(dist.calls) = {}

\* ------------------------------------------------------------------ C18
\* C18: a reload returns 0 only if every proc_compose of its distribution
\* succeeded.
C18_SuccessMeansAllComposed ==
    (last.op = "priv_reload" /\ last.ret = "0") => AllQueued

====
